---- MODULE Spec2Model ----
(***************************************************************************)
(* A model of the BlackRoad invoice manager (src/invoice.py): the two      *)
(* SQLite tables, the lifecycle operations over them and the monetary      *)
(* calculator of the Invoice dataclass.                                    *)
(*                                                                         *)
(* Representation.                                                         *)
(*  - A table is the sequence of its rows in insertion (rowid) order.      *)
(*  - Text that the code takes apart (the invoice number, matched with     *)
(*    LIKE) is a sequence of one-character strings.                        *)
(*  - A calendar date is the number of days since the model's first day;   *)
(*    the ISO strings the code stores and compares (YYYY-MM-DD, always four *)
(*    year digits) order lexicographically as the dates do, so "<" on the  *)
(*    strings is "<" on day numbers.  A timestamp is kept to its day.      *)
(*  - qty, unit_price, tax_rate, discount and the money amounts are        *)
(*    fixed-point numbers in hundredths (money in cents).                  *)
(***************************************************************************)
EXTENDS Integers, Sequences, FiniteSets, TLC

VARIABLES
    invoices,     \* table invoices: sequence of rows
    line_items,   \* table line_items: sequence of rows
    clock,        \* the system clock (datetime.utcnow()), in days
    last,         \* the last call made and what it returned or raised
    returned,     \* id -> the Invoice object create_invoice returned for it
    calc,         \* the Invoice dataclass instance the calculator works on
    conns         \* caller -> the call it has in progress on its connection

vars == <<invoices, line_items, clock, last, returned, calc, conns>>

----------------------------------------------------------------------------
(* Bounds of the model *)

MaxInvoices == 2      \* rows the invoices table may hold
MaxItems == 2         \* line items a create call may pass
MaxDay == 1           \* the clock stops advancing at this day
YearLen == 1          \* days per calendar year (shortened, so that a new year is reached)
BaseYear == 2026      \* the calendar year of day 0
MaxCallers == 2       \* callers that may have a call in progress at once

InvoiceIds == 1..MaxInvoices          \* the values uuid4() returns
Callers == 1..MaxCallers              \* the callers, each on its own connection

\* An optional value is a sequence of at most one element:
NULL == <<>>                          \* SQL NULL / Python None
Some(x) == <<x>>                      \* a value that is set

----------------------------------------------------------------------------
(* Fixed-point numbers *)

Cent == 100           \* round(x, 2): two decimals

----------------------------------------------------------------------------
(* Text *)

DigitChars == <<"0", "1", "2", "3", "4", "5", "6", "7", "8", "9">>
UpperChars == <<"A", "B", "C", "D", "E", "F", "G", "H", "I", "J", "K", "L", "M",
                "N", "O", "P", "Q", "R", "S", "T", "U", "V", "W", "X", "Y", "Z">>
LowerChars == <<"a", "b", "c", "d", "e", "f", "g", "h", "i", "j", "k", "l", "m",
                "n", "o", "p", "q", "r", "s", "t", "u", "v", "w", "x", "y", "z">>

\* str(n) for n >= 0
RECURSIVE Decimal(_)
Decimal(n) ==
    IF n < 10 THEN <<DigitChars[n + 1]>>
    ELSE Decimal(n \div 10) \o <<DigitChars[(n % 10) + 1]>>

\* format(n, "0{w}d"): left-padded with zeros to at least w characters
ZeroPad(n, w) ==
    LET s == Decimal(n)
    IN  IF Len(s) >= w THEN s ELSE [i \in 1..(w - Len(s)) |-> "0"] \o s

\* SQLite folds ASCII letters for LIKE
UpperToLower ==
    [c \in {UpperChars[i] : i \in 1..Len(UpperChars)} |->
        LowerChars[CHOOSE i \in 1..Len(UpperChars) : UpperChars[i] = c]]
Fold(c) == IF c \in DOMAIN UpperToLower THEN UpperToLower[c] ELSE c

\* SQLite's  s LIKE p : % matches any run of characters, _ any one character,
\* any other character itself up to ASCII case
RECURSIVE Like(_, _)
Like(s, p) ==
    IF p = <<>> THEN s = <<>>
    ELSE IF Head(p) = "%"
         THEN Like(s, Tail(p)) \/ (s # <<>> /\ Like(Tail(s), p))
         ELSE /\ s # <<>>
              /\ (Head(p) = "_" \/ Fold(Head(s)) = Fold(Head(p)))
              /\ Like(Tail(s), Tail(p))

----------------------------------------------------------------------------
(* The clock *)

\* datetime.year of a day
YearOf(day) == BaseYear + (day \div YearLen)

\* f"INV-{year}-"
NumberPrefix(year) == <<"I", "N", "V", "-">> \o Decimal(year) \o <<"-">>

\* f"INV-{year}-{seq:05d}"
FormatNumber(year, seq) == NumberPrefix(year) \o ZeroPad(seq, 5)

----------------------------------------------------------------------------
(* Rows and objects *)

\* LineItem(description, qty, unit_price)
LineItem(description, qty, unit_price) ==
    [description |-> description, qty |-> qty, unit_price |-> unit_price]

\* SELECT * FROM invoices WHERE id=? : the matching rows; fetchone() is the
\* first of them, or None when there is none
SelectInvoice(tbl, invoice_id) == SelectSeq(tbl, LAMBDA r : r.id = invoice_id)

\* ORDER BY position DESC
RECURSIVE OrderByPositionDesc(_)
OrderByPositionDesc(s) ==
    IF s = <<>> THEN <<>>
    ELSE LET most == CHOOSE i \in 1..Len(s) :
                        \A j \in 1..Len(s) : s[i].position >= s[j].position
             rest == [j \in 1..(Len(s) - 1) |-> IF j < most THEN s[j] ELSE s[j + 1]]
         IN  <<s[most]>> \o OrderByPositionDesc(rest)

\* The rows of s in ascending position (ORDER BY position); rows of equal
\* position keep their table order
RECURSIVE OrderByPosition(_)
OrderByPosition(s) ==
    IF s = <<>> THEN <<>>
    ELSE LET least == CHOOSE i \in 1..Len(s) :
                         /\ \A j \in 1..Len(s) : s[i].position <= s[j].position
                         /\ \A j \in 1..(i - 1) : s[j].position > s[i].position
             rest == [j \in 1..(Len(s) - 1) |-> IF j < least THEN s[j] ELSE s[j + 1]]
         IN  <<s[least]>> \o OrderByPosition(rest)

\* SELECT * FROM line_items WHERE invoice_id=? ORDER BY position
SelectLineItems(tbl, invoice_id) ==
    OrderByPosition(SelectSeq(tbl, LAMBDA r : r.invoice_id = invoice_id))

\* Invoice(...) built from an invoices row and the line items
_row_to_invoice(row, items) ==
    [id |-> row.id, number |-> row.number,
     client_name |-> row.client_name, client_email |-> row.client_email,
     line_items |-> items, tax_rate |-> row.tax_rate, discount |-> row.discount,
     status |-> row.status, due_date |-> row.due_date, created_at |-> row.created_at,
     paid_at |-> row.paid_at, payment_method |-> row.payment_method,
     notes |-> row.notes, currency |-> row.currency]

\* What a call gives back: the exception raised ("" for none) with its message,
\* or the value returned
Raise(type, msg) == [raises |-> type, msg |-> msg, value |-> NULL]
Return(value) == [raises |-> "", msg |-> "", value |-> value]

\* The record of the last call, before any call is made
NoCall == [op |-> "", args |-> NULL, out |-> Return(NULL)]

\* A connection with no call in progress: pc is the statement the call is at
\* ("done" once it has returned or raised), loc its local variables
Idle == [op |-> "", pc |-> "done", args |-> NULL, loc |-> NULL, out |-> Return(NULL)]

\* UPDATE invoices SET status=st WHERE id IN ids
SetStatus(tbl, ids, st) ==
    [i \in 1..Len(tbl) |->
        IF tbl[i].id \in ids THEN [tbl[i] EXCEPT !.status = st] ELSE tbl[i]]

----------------------------------------------------------------------------
(* Core invoice operations.  Each takes the tables (and the clock readings *)
(* it makes) and yields its outcome together with the tables as committed: *)
(* the connection's context manager commits when the block ends normally   *)
(* and rolls back when it raises.                                          *)

\* _invoice_number(conn), the clock reading year made inside it
_invoice_number(tbl, year) ==
    LET cnt == Len(SelectSeq(tbl, LAMBDA r : Like(r.number, NumberPrefix(year) \o <<"%">>)))
        seq == cnt + 1
    IN  FormatNumber(year, seq)

\* get_invoice that returns None for an unknown id
get_invoice_or_none(inv_tbl, li_tbl, invoice_id) ==
    LET rows == SelectInvoice(inv_tbl, invoice_id)
    IN  IF rows = <<>> THEN Return(NULL)
        ELSE LET row == Head(rows)
                 li_rows == SelectLineItems(li_tbl, invoice_id)
                 items == [i \in 1..Len(li_rows) |->
                              LineItem(li_rows[i].description, li_rows[i].qty,
                                       li_rows[i].unit_price)]
             IN  Return(_row_to_invoice(row, items))

\* get_invoice(invoice_id)
get_invoice(inv_tbl, li_tbl, invoice_id) ==
    LET rows == SelectInvoice(inv_tbl, invoice_id)
    IN  IF rows = <<>> THEN Raise("KeyError", "Invoice not found")
        ELSE LET row == Head(rows)
                 li_rows == SelectLineItems(li_tbl, invoice_id)
                 items == [i \in 1..Len(li_rows) |->
                              LineItem(li_rows[i].description, li_rows[i].qty,
                                       li_rows[i].unit_price)]
             IN  Return(_row_to_invoice(row, items))

\* The checks without the upper limit of discount
ValidateCreate_no_upper(a) ==
    IF a.items = <<>>
    THEN Raise("ValueError", "Invoice must have at least one line item")
    ELSE IF ~(0 <= a.tax_rate /\ a.tax_rate <= Cent)
    THEN Raise("ValueError", "tax_rate must be between 0 and 1")
    ELSE IF ~(0 <= a.discount)
    THEN Raise("ValueError", "discount must be between 0 and 1")
    ELSE Return(NULL)

\* The three checks create_invoice makes before it opens the database
ValidateCreate(a) ==
    IF a.items = <<>>
    THEN Raise("ValueError", "Invoice must have at least one line item")
    ELSE IF ~(0 <= a.tax_rate /\ a.tax_rate <= Cent)
    THEN Raise("ValueError", "tax_rate must be between 0 and 1")
    ELSE IF ~(0 <= a.discount /\ a.discount <= Cent)
    THEN Raise("ValueError", "discount must be between 0 and 1")
    ELSE Return(NULL)

\* INSERT INTO invoices: the primary key and the UNIQUE number are enforced
InsertInvoiceOk(tbl, row) ==
    \A r \in {tbl[i] : i \in 1..Len(tbl)} : r.id # row.id /\ r.number # row.number

\* The line_items rows create_invoice inserts for items, position = index from 0
LineItemRows(li_tbl, invoice_id, items) ==
    [i \in 1..Len(items) |->
        [id |-> Len(li_tbl) + i, invoice_id |-> invoice_id,
         description |-> items[i].description, qty |-> items[i].qty,
         unit_price |-> items[i].unit_price, position |-> i - 1]]

\* create_invoice that counts the due date from the clock as _invoice_number
\* reads it
create_invoice_due_from_now2(inv_tbl, li_tbl, a, new_id, now, now2) ==
    LET checked == ValidateCreate(a)
        due_date == now2 + a.due_days
        number == _invoice_number(inv_tbl, YearOf(now2))
        inv == [id |-> new_id, number |-> number,
                client_name |-> a.client_name, client_email |-> a.client_email,
                line_items |-> a.items, tax_rate |-> a.tax_rate,
                discount |-> a.discount, status |-> "draft",
                due_date |-> due_date, created_at |-> now,
                paid_at |-> NULL, payment_method |-> NULL,
                notes |-> a.notes, currency |-> a.currency]
        row == [id |-> inv.id, number |-> inv.number,
                client_name |-> inv.client_name, client_email |-> inv.client_email,
                tax_rate |-> inv.tax_rate, discount |-> inv.discount,
                status |-> inv.status, due_date |-> inv.due_date,
                created_at |-> inv.created_at,
                paid_at |-> NULL, payment_method |-> NULL,
                notes |-> inv.notes, currency |-> inv.currency]
    IN  IF checked.raises # ""
        THEN [out |-> checked, invoices |-> inv_tbl, line_items |-> li_tbl]
        ELSE IF ~InsertInvoiceOk(inv_tbl, row)
        THEN [out |-> Raise("IntegrityError", "UNIQUE constraint failed"),
              invoices |-> inv_tbl, line_items |-> li_tbl]
        ELSE [out |-> Return(inv),
              invoices |-> Append(inv_tbl, row),
              line_items |-> li_tbl \o LineItemRows(li_tbl, inv.id, a.items)]

\* create_invoice(a.client_name, ..., a.currency): new_id is what uuid4() gives,
\* now the clock read at the top of the call and now2 the clock read again by
\* _invoice_number
create_invoice(inv_tbl, li_tbl, a, new_id, now, now2) ==
    LET checked == ValidateCreate(a)
        due_date == now + a.due_days
        number == _invoice_number(inv_tbl, YearOf(now2))
        inv == [id |-> new_id, number |-> number,
                client_name |-> a.client_name, client_email |-> a.client_email,
                line_items |-> a.items, tax_rate |-> a.tax_rate,
                discount |-> a.discount, status |-> "draft",
                due_date |-> due_date, created_at |-> now,
                paid_at |-> NULL, payment_method |-> NULL,
                notes |-> a.notes, currency |-> a.currency]
        row == [id |-> inv.id, number |-> inv.number,
                client_name |-> inv.client_name, client_email |-> inv.client_email,
                tax_rate |-> inv.tax_rate, discount |-> inv.discount,
                status |-> inv.status, due_date |-> inv.due_date,
                created_at |-> inv.created_at,
                paid_at |-> NULL, payment_method |-> NULL,
                notes |-> inv.notes, currency |-> inv.currency]
    IN  IF checked.raises # ""
        THEN [out |-> checked, invoices |-> inv_tbl, line_items |-> li_tbl]
        ELSE IF ~InsertInvoiceOk(inv_tbl, row)
        THEN [out |-> Raise("IntegrityError", "UNIQUE constraint failed"),
              invoices |-> inv_tbl, line_items |-> li_tbl]
        ELSE [out |-> Return(inv),
              invoices |-> Append(inv_tbl, row),
              line_items |-> li_tbl \o LineItemRows(li_tbl, inv.id, a.items)]

\* send_invoice without its check of the paid status
send_invoice_unchecked(inv_tbl, li_tbl, invoice_id) ==
    LET rows == SelectInvoice(inv_tbl, invoice_id)
    IN  IF rows = <<>>
        THEN [out |-> Raise("KeyError", "Invoice not found"), invoices |-> inv_tbl]
        ELSE LET updated == SetStatus(inv_tbl, {invoice_id}, "sent")
             IN  [out |-> get_invoice(updated, li_tbl, invoice_id),
                  invoices |-> updated]

\* send_invoice that sends a draft only
send_invoice_draft_only(inv_tbl, li_tbl, invoice_id) ==
    LET rows == SelectInvoice(inv_tbl, invoice_id)
    IN  IF rows = <<>>
        THEN [out |-> Raise("KeyError", "Invoice not found"), invoices |-> inv_tbl]
        ELSE IF Head(rows).status # "draft"
        THEN [out |-> Raise("ValueError", "Cannot send a paid invoice"),
              invoices |-> inv_tbl]
        ELSE LET updated == SetStatus(inv_tbl, {invoice_id}, "sent")
             IN  [out |-> get_invoice(updated, li_tbl, invoice_id),
                  invoices |-> updated]

\* send_invoice(invoice_id)
send_invoice(inv_tbl, li_tbl, invoice_id) ==
    LET rows == SelectInvoice(inv_tbl, invoice_id)
    IN  IF rows = <<>>
        THEN [out |-> Raise("KeyError", "Invoice not found"), invoices |-> inv_tbl]
        ELSE IF Head(rows).status = "paid"
        THEN [out |-> Raise("ValueError", "Cannot send a paid invoice"),
              invoices |-> inv_tbl]
        ELSE LET updated == SetStatus(inv_tbl, {invoice_id}, "sent")
             IN  [out |-> get_invoice(updated, li_tbl, invoice_id),
                  invoices |-> updated]

\* The payment_method argument left out of a call of mark_paid
Omitted == "<omitted>"

\* The UPDATE of mark_paid without its WHERE clause
SetPaid_every_row(inv_tbl, invoice_id, payment_method, now) ==
    [i \in 1..Len(inv_tbl) |->
        [inv_tbl[i] EXCEPT !.status = "paid", !.paid_at = Some(now),
                           !.payment_method = Some(payment_method)]]

\* The UPDATE of mark_paid
SetPaid(inv_tbl, invoice_id, payment_method, now) ==
    [i \in 1..Len(inv_tbl) |->
        IF inv_tbl[i].id = invoice_id
        THEN [inv_tbl[i] EXCEPT !.status = "paid", !.paid_at = Some(now),
                                !.payment_method = Some(payment_method)]
        ELSE inv_tbl[i]]

\* mark_paid that leaves payment_method out of its UPDATE
mark_paid_no_method(inv_tbl, li_tbl, invoice_id, m, now) ==
    LET rows == SelectInvoice(inv_tbl, invoice_id)
    IN  IF rows = <<>>
        THEN [out |-> Raise("KeyError", "Invoice not found"), invoices |-> inv_tbl]
        ELSE IF Head(rows).status = "paid"
        THEN [out |-> Raise("ValueError", "Invoice already paid"),
              invoices |-> inv_tbl]
        ELSE LET updated == [i \in 1..Len(inv_tbl) |->
                                IF inv_tbl[i].id = invoice_id
                                THEN [inv_tbl[i] EXCEPT !.status = "paid",
                                                        !.paid_at = Some(now)]
                                ELSE inv_tbl[i]]
             IN  [out |-> get_invoice(updated, li_tbl, invoice_id),
                  invoices |-> updated]

\* mark_paid without its check of the paid status
mark_paid_unchecked(inv_tbl, li_tbl, invoice_id, m, now) ==
    LET payment_method == IF m = Omitted THEN "bank_transfer" ELSE m
        rows == SelectInvoice(inv_tbl, invoice_id)
    IN  IF rows = <<>>
        THEN [out |-> Raise("KeyError", "Invoice not found"), invoices |-> inv_tbl]
        ELSE LET updated == SetPaid(inv_tbl, invoice_id, payment_method, now)
             IN  [out |-> get_invoice(updated, li_tbl, invoice_id),
                  invoices |-> updated]

\* mark_paid that takes the default payment method whatever is passed
mark_paid_default_only(inv_tbl, li_tbl, invoice_id, m, now) ==
    LET rows == SelectInvoice(inv_tbl, invoice_id)
    IN  IF rows = <<>>
        THEN [out |-> Raise("KeyError", "Invoice not found"), invoices |-> inv_tbl]
        ELSE IF Head(rows).status = "paid"
        THEN [out |-> Raise("ValueError", "Invoice already paid"),
              invoices |-> inv_tbl]
        ELSE LET updated == SetPaid(inv_tbl, invoice_id, "bank_transfer", now)
             IN  [out |-> get_invoice(updated, li_tbl, invoice_id),
                  invoices |-> updated]

\* mark_paid(invoice_id, m): m is the payment_method passed, or Omitted;
\* now is the clock read by _now()
mark_paid(inv_tbl, li_tbl, invoice_id, m, now) ==
    LET payment_method == IF m = Omitted THEN "bank_transfer" ELSE m
        rows == SelectInvoice(inv_tbl, invoice_id)
    IN  IF rows = <<>>
        THEN [out |-> Raise("KeyError", "Invoice not found"), invoices |-> inv_tbl]
        ELSE IF Head(rows).status = "paid"
        THEN [out |-> Raise("ValueError", "Invoice already paid"),
              invoices |-> inv_tbl]
        ELSE LET updated == SetPaid(inv_tbl, invoice_id, payment_method, now)
             IN  [out |-> get_invoice(updated, li_tbl, invoice_id),
                  invoices |-> updated]

\* mark_overdue that also takes the invoices due today
mark_overdue_due_today(inv_tbl, today) ==
    LET rows == SelectSeq(inv_tbl, LAMBDA r : r.status = "sent" /\ r.due_date <= today)
        ids == [i \in 1..Len(rows) |-> rows[i].id]
        updated == IF ids # <<>>
                   THEN SetStatus(inv_tbl, {ids[i] : i \in 1..Len(ids)}, "overdue")
                   ELSE inv_tbl
    IN  [out |-> Return(ids), invoices |-> updated]

\* mark_overdue that takes the invoices past due whatever their status
mark_overdue_any_status(inv_tbl, today) ==
    LET rows == SelectSeq(inv_tbl, LAMBDA r : r.due_date < today)
        ids == [i \in 1..Len(rows) |-> rows[i].id]
        updated == IF ids # <<>>
                   THEN SetStatus(inv_tbl, {ids[i] : i \in 1..Len(ids)}, "overdue")
                   ELSE inv_tbl
    IN  [out |-> Return(ids), invoices |-> updated]

\* mark_overdue that selects and returns the ids without its UPDATE
mark_overdue_select_only(inv_tbl, today) ==
    LET rows == SelectSeq(inv_tbl, LAMBDA r : r.status = "sent" /\ r.due_date < today)
        ids == [i \in 1..Len(rows) |-> rows[i].id]
    IN  [out |-> Return(ids), invoices |-> inv_tbl]

\* mark_overdue(): today is the clock read at the top of the call
mark_overdue(inv_tbl, today) ==
    LET rows == SelectSeq(inv_tbl, LAMBDA r : r.status = "sent" /\ r.due_date < today)
        ids == [i \in 1..Len(rows) |-> rows[i].id]
        updated == IF ids # <<>>
                   THEN SetStatus(inv_tbl, {ids[i] : i \in 1..Len(ids)}, "overdue")
                   ELSE inv_tbl
    IN  [out |-> Return(ids), invoices |-> updated]

----------------------------------------------------------------------------
(* The monetary calculator: the properties of LineItem and Invoice.        *)
(*                                                                         *)
(* round(x, 2) on a float is the cent nearest to x.  Where the exact       *)
(* decimal value lies half-way between two cents, the float that stands    *)
(* for it may lie on either side (0.015 is stored below, 0.035 above the   *)
(* decimal), so the result there is either neighbour: the parameter up     *)
(* says which one the platform's arithmetic gives for this computation.    *)

\* Cutting the digits off instead of rounding: floor(n / d)
RoundDown(n, d, up) == n \div d

\* round(n / d, 0) for d > 0, ties as up says
Round(n, d, up) ==
    LET q == n \div d
        r == n % d
    IN  IF 2 * r < d THEN q
        ELSE IF 2 * r > d THEN q + 1
        ELSE IF up THEN q + 1 ELSE q

\* LineItem.total, in cents
LineItemTotal(li, up) == Round(li.qty * li.unit_price, Cent, up)

RECURSIVE Sum(_)
Sum(s) == IF s = <<>> THEN 0 ELSE Head(s) + Sum(Tail(s))

\* Invoice.subtotal ... Invoice.total, in cents; t gives the side every
\* half-way case of this invoice falls to
subtotal(inv, t) ==
    Round(Sum([i \in 1..Len(inv.line_items) |->
                  LineItemTotal(inv.line_items[i], t.line[i])]), 1, FALSE)

discount_amount(inv, t) == Round(subtotal(inv, t) * inv.discount, Cent, t.discount)

taxable_amount(inv, t) == Round(subtotal(inv, t) - discount_amount(inv, t), 1, FALSE)

tax_amount(inv, t) == Round(taxable_amount(inv, t) * inv.tax_rate, Cent, t.tax)

total(inv, t) == Round(taxable_amount(inv, t) + tax_amount(inv, t), 1, FALSE)

\* The derived entries Invoice.to_dict() adds (each line item's total, then
\* the five amounts)
to_dict(inv, t) ==
    [line_totals |-> [i \in 1..Len(inv.line_items) |->
                         LineItemTotal(inv.line_items[i], t.line[i])],
     subtotal |-> subtotal(inv, t),
     discount_amount |-> discount_amount(inv, t),
     taxable_amount |-> taxable_amount(inv, t),
     tax_amount |-> tax_amount(inv, t),
     total |-> total(inv, t)]

----------------------------------------------------------------------------
(* Queries and reports.  An optional argument is NULL when the call leaves *)
(* it out (or passes None) and Some(v) when it passes v.                   *)

Milli == 1000         \* daily_rate is a fixed-point number in thousandths

Max(a, b) == IF a >= b THEN a ELSE b

\* calculate_overdue_fee that also charges a paid invoice
calculate_overdue_fee_paid_too(inv_tbl, li_tbl, invoice_id, rate, today, t, up) ==
    LET daily_rate == IF rate = NULL THEN 1 ELSE rate[1]
        got == get_invoice(inv_tbl, li_tbl, invoice_id)
    IN  IF got.raises # "" THEN got
        ELSE LET inv == got.value
                 due == inv.due_date
                 days_overdue == Max(0, today - due)
             IN  Return(Round(total(inv, t) * daily_rate * days_overdue, Milli, up))

\* calculate_overdue_fee(invoice_id, rate): rate is the daily_rate passed, in
\* thousandths, or NULL for the default 0.001; today is the clock read by the
\* call; t and up say where the half-way cases of inv.total and of the fee
\* fall.  The fee is in cents.
calculate_overdue_fee(inv_tbl, li_tbl, invoice_id, rate, today, t, up) ==
    LET daily_rate == IF rate = NULL THEN 1 ELSE rate[1]
        got == get_invoice(inv_tbl, li_tbl, invoice_id)
    IN  IF got.raises # "" THEN got
        ELSE LET inv == got.value
             IN  IF inv.status = "paid" THEN Return(0)
                 ELSE LET due == inv.due_date
                          days_overdue == Max(0, today - due)
                      IN  Return(Round(total(inv, t) * daily_rate * days_overdue,
                                       Milli, up))

\* summary_report that counts the rows selected instead of the paid ones
summary_report_rate_of_all(inv_tbl, li_tbl, period_start, period_end, t, up) ==
    LET rows == IF period_start # NULL /\ period_end # NULL
                THEN SelectSeq(inv_tbl, LAMBDA r : /\ period_start[1] <= r.created_at
                                                   /\ r.created_at < period_end[1])
                ELSE inv_tbl
        gets == [i \in 1..Len(rows) |-> get_invoice(inv_tbl, li_tbl, rows[i].id)]
        found == SelectSeq(gets, LAMBDA g : g.raises = "")
        all_invoices == [i \in 1..Len(found) |-> found[i].value]
        WithStatus(st) == SelectSeq(all_invoices, LAMBDA i : i.status = st)
        Totals(invs) == Sum([i \in 1..Len(invs) |-> total(invs[i], t)])
        paid == WithStatus("paid")
        overdue == WithStatus("overdue")
        draft == WithStatus("draft")
        sent == WithStatus("sent")
    IN  Return([period_start |-> period_start, period_end |-> period_end,
                total_invoices |-> Len(all_invoices),
                total_invoiced |-> Round(Totals(all_invoices), 1, FALSE),
                paid_count |-> Len(paid),
                paid_total |-> Round(Totals(paid), 1, FALSE),
                overdue_count |-> Len(overdue),
                overdue_total |-> Round(Totals(overdue), 1, FALSE),
                draft_count |-> Len(draft),
                sent_count |-> Len(sent),
                collection_rate |->
                    IF all_invoices # <<>>
                    THEN Round(Len(rows) * Cent * 10, Len(all_invoices), up)
                    ELSE 0])

\* summary_report(period_start, period_end).  A period bound is a date; the
\* text of a timestamp of day d is greater than the text of the date d and
\* less than that of the date d + 1, so created_at BETWEEN start AND end takes
\* the days start .. end - 1.  The totals are in cents, collection_rate in
\* tenths of a percent; t and up say where half-way cases fall.
summary_report(inv_tbl, li_tbl, period_start, period_end, t, up) ==
    LET rows == IF period_start # NULL /\ period_end # NULL
                THEN SelectSeq(inv_tbl, LAMBDA r : /\ period_start[1] <= r.created_at
                                                   /\ r.created_at < period_end[1])
                ELSE inv_tbl
        gets == [i \in 1..Len(rows) |-> get_invoice(inv_tbl, li_tbl, rows[i].id)]
        found == SelectSeq(gets, LAMBDA g : g.raises = "")
        all_invoices == [i \in 1..Len(found) |-> found[i].value]
        WithStatus(st) == SelectSeq(all_invoices, LAMBDA i : i.status = st)
        Totals(invs) == Sum([i \in 1..Len(invs) |-> total(invs[i], t)])
        paid == WithStatus("paid")
        overdue == WithStatus("overdue")
        draft == WithStatus("draft")
        sent == WithStatus("sent")
    IN  Return([period_start |-> period_start, period_end |-> period_end,
                total_invoices |-> Len(all_invoices),
                total_invoiced |-> Round(Totals(all_invoices), 1, FALSE),
                paid_count |-> Len(paid),
                paid_total |-> Round(Totals(paid), 1, FALSE),
                overdue_count |-> Len(overdue),
                overdue_total |-> Round(Totals(overdue), 1, FALSE),
                draft_count |-> Len(draft),
                sent_count |-> Len(sent),
                collection_rate |->
                    IF all_invoices # <<>>
                    THEN Round(Len(paid) * Cent * 10, Len(all_invoices), up)
                    ELSE 0])

\* ORDER BY created_at ASC
RECURSIVE OrderByCreatedAt(_)
OrderByCreatedAt(s) ==
    IF s = <<>> THEN <<>>
    ELSE LET first == CHOOSE i \in 1..Len(s) :
                         /\ \A j \in 1..Len(s) : s[i].created_at <= s[j].created_at
                         /\ \A j \in 1..(i - 1) : s[j].created_at > s[i].created_at
             rest == [j \in 1..(Len(s) - 1) |-> IF j < first THEN s[j] ELSE s[j + 1]]
         IN  <<s[first]>> \o OrderByCreatedAt(rest)

\* ORDER BY created_at DESC: the rows of s (which are in table order) by
\* descending timestamp.  A timestamp is kept to its day; of two rows of the
\* same day the one inserted later has the later timestamp, each call reading
\* the clock after the call before it has returned.
RECURSIVE OrderByCreatedAtDesc(_)
OrderByCreatedAtDesc(s) ==
    IF s = <<>> THEN <<>>
    ELSE LET latest == CHOOSE i \in 1..Len(s) :
                          /\ \A j \in 1..Len(s) : s[i].created_at >= s[j].created_at
                          /\ \A j \in (i + 1)..Len(s) : s[j].created_at < s[i].created_at
             rest == [j \in 1..(Len(s) - 1) |-> IF j < latest THEN s[j] ELSE s[j + 1]]
         IN  <<s[latest]>> \o OrderByCreatedAtDesc(rest)

\* The SELECT of list_invoices: a filter that is None or empty is not applied
ListSelect(inv_tbl, status, client) ==
    LET Matches(r) ==
            /\ status = NULL \/ status[1] = "" \/ r.status = status[1]
            /\ client = NULL \/ client[1] = <<>>
                  \/ Like(r.client_name, <<"%">> \o client[1] \o <<"%">>)
    IN  OrderByCreatedAtDesc(SelectSeq(inv_tbl, LAMBDA r : Matches(r)))

\* list_invoices(status, client)
list_invoices(inv_tbl, li_tbl, status, client) ==
    LET rows == ListSelect(inv_tbl, status, client)
    IN  Return([i \in 1..Len(rows) |-> get_invoice(inv_tbl, li_tbl, rows[i].id).value])

\* str.upper() of a status
Upper(status) ==
    CASE status = "draft" -> "DRAFT"
      [] status = "sent" -> "SENT"
      [] status = "paid" -> "PAID"
      [] status = "overdue" -> "OVERDUE"
      [] OTHER -> status

\* generate_pdf_text(invoice_id): the text as its lines, each line as the
\* values laid out on it (labels, rules and padding carry nothing of the
\* invoice; a timestamp cut to [:10] is its day, which is all the model keeps
\* of it).  t says where the half-way cases of the amounts fall.  lo says that
\* the float product rate * 100 falls just below the whole percent, so that
\* int() cuts it to one less (0.29 * 100 is 28.999999999999996).
generate_pdf_text(inv_tbl, li_tbl, invoice_id, t, lo) ==
    LET got == get_invoice(inv_tbl, li_tbl, invoice_id)
    IN  IF got.raises # "" THEN got
        ELSE LET inv == got.value
                 d == to_dict(inv, t)
                 Percent(rate) == IF lo THEN rate - 1 ELSE rate
                 head == << <<"Invoice #:", inv.number>>,
                            <<"Date:", inv.created_at>>,
                            <<"Due Date:", inv.due_date>>,
                            <<"Status:", Upper(inv.status)>>,
                            <<"Bill To:">>,
                            <<inv.client_name>>,
                            <<inv.client_email>> >>
                 items == [i \in 1..Len(inv.line_items) |->
                              <<inv.line_items[i].description, inv.line_items[i].qty,
                                inv.line_items[i].unit_price, d.line_totals[i]>>]
                 sub == << <<"Subtotal", d.subtotal>> >>
                 disc == IF inv.discount > 0
                         THEN << <<"Discount", Percent(inv.discount), d.discount_amount>> >>
                         ELSE <<>>
                 tax == IF inv.tax_rate > 0
                        THEN << <<"Tax", Percent(inv.tax_rate), d.tax_amount>> >>
                        ELSE <<>>
                 tot == << <<"TOTAL", inv.currency, d.total>> >>
                 paid == IF inv.paid_at # NULL
                         THEN << <<"PAID on", inv.paid_at[1], "via", inv.payment_method[1]>> >>
                         ELSE <<>>
                 notes == IF inv.notes # "" THEN << <<"Notes:", inv.notes>> >> ELSE <<>>
             IN  Return(head \o items \o sub \o disc \o tax \o tot \o paid \o notes)

\* A cell as csv.writer writes it: None is written as the empty string
CsvCell(x) == IF x = NULL THEN "" ELSE x[1]

\* export_to_csv(): the CSV as its rows of cells, the header first, then
\* every invoice, newest first.  With output given the same text is also
\* written to that file, which is no part of the store.
export_to_csv(inv_tbl) ==
    LET rows == OrderByCreatedAtDesc(inv_tbl)
        header == <<"id", "number", "client_name", "client_email", "status",
                    "due_date", "created_at", "paid_at", "payment_method",
                    "currency", "tax_rate", "discount">>
    IN  Return(<<header>> \o
               [i \in 1..Len(rows) |->
                   <<rows[i].id, rows[i].number, rows[i].client_name,
                     rows[i].client_email, rows[i].status, rows[i].due_date,
                     rows[i].created_at, CsvCell(rows[i].paid_at),
                     CsvCell(rows[i].payment_method), rows[i].currency,
                     rows[i].tax_rate, rows[i].discount>>])


----------------------------------------------------------------------------
(* Inputs *)

\* Sequences over S of length lo..hi
SeqsOf(S, lo, hi) == UNION {[1..n -> S] : n \in lo..hi}

\* Decimal literals as fixed-point numbers
Whole(n) == n * Cent
Tenths(n) == n * (Cent \div 10)
Hundredths(n) == n

ClientNames == {<<"A", "c", "m", "e">>}
ClientEmails == {"billing@acme.com"}
ItemPool == {LineItem("Web Development", Whole(10), Whole(150)),
             LineItem("Design Work", Whole(5), Whole(80))}
TaxRates == {Tenths(1)}                       \* 0.1
Discounts == {Hundredths(5)}                  \* 0.05
DueDays == {0}
Methods == {"credit_card", Omitted}
CallIds == InvoiceIds \cup {0}                \* 0: an id uuid4() never gave

\* The item lists passed: up to MaxItems different items of the pool, in any order
ItemLists ==
    {s \in SeqsOf(ItemPool, 1, MaxItems) :
        \A i, j \in 1..Len(s) : s[i] = s[j] => i = j}

\* Calls of create_invoice that pass its checks
GoodArgs ==
    [client_name : ClientNames, client_email : ClientEmails,
     items : ItemLists, tax_rate : TaxRates,
     due_days : DueDays, discount : Discounts,
     notes : {""}, currency : {"USD"}]

\* Calls that do not: no items, or a rate outside [0, 1] (1.5 and -0.1 are the
\* tests' values, -0.01 and 1.01 lie just outside)
BadArgs ==
    LET a == CHOOSE x \in GoodArgs : \A y \in GoodArgs : Len(y.items) <= Len(x.items)
    IN  {[a EXCEPT !.items = <<>>],
         [a EXCEPT !.tax_rate = Tenths(15)], [a EXCEPT !.tax_rate = -1],
         [a EXCEPT !.discount = Tenths(-1)], [a EXCEPT !.discount = Cent + 1]}

\* The rates at the ends of [0, 1] are accepted
EdgeArgs ==
    LET a == CHOOSE x \in GoodArgs : Len(x.items) = 1
    IN  {[a EXCEPT !.tax_rate = 0, !.discount = Cent]}

CreateArgs == GoodArgs \cup EdgeArgs \cup BadArgs

\* The create calls made by concurrent callers: the sample items, due the
\* day before (these calls are short against a day: the clock stands still)
ConcCreateArgs ==
    LET a == CHOOSE x \in GoodArgs : \A y \in GoodArgs : Len(y.items) <= Len(x.items)
    IN  {[a EXCEPT !.due_days = -1]}

\* What the calculator is given
CalcItemPool ==
    {LineItem("Service A", Whole(2), Whole(100)),
     LineItem("Service B", Whole(1), Whole(50)),
     LineItem("Hours", Tenths(3), Hundredths(33)),      \* 0.3 x 0.33 = 0.099
     LineItem("Half", Tenths(5), Hundredths(25)),       \* 0.5 x 0.25 = 0.125
     LineItem("Credit", Tenths(-5), Hundredths(25))}    \* -0.5 x 0.25 = -0.125
CalcTaxRates == {0, Tenths(1), Hundredths(25)}
CalcDiscounts == {0, Hundredths(5), Tenths(5)}
Ties == [line : [1..MaxItems -> BOOLEAN], discount : BOOLEAN, tax : BOOLEAN]

\* What the queries and reports are run on and asked
ReportCreateArgs ==
    LET a == CHOOSE x \in GoodArgs : \A y \in GoodArgs : Len(y.items) <= Len(x.items)
    IN  {[a EXCEPT !.client_name = <<"A", "c", "m", "e">>, !.due_days = -1],
         [a EXCEPT !.client_name = <<"X", "Y", "Z">>, !.due_days = 1]}
\* The sides tried for the half-way cases of the invoice totals inside a
\* report: all down, all up (the amounts of ReportCreateArgs have none)
ReportTies == {t \in Ties : \A i \in 1..MaxItems : t.line[i] = t.tax /\ t.discount = t.tax}
DailyRates == {NULL, Some(10)}                \* the default 0.001, and 0.01
Periods == {<<NULL, NULL>>, <<Some(0), NULL>>, <<Some(0), Some(1)>>}
Statuses == {"draft", "sent", "paid", "overdue"}
ClientFilters ==
    {<<"A", "c", "m", "e">>, <<"c", "m">>, <<"a", "c", "m", "e">>,
     <<"A", "_", "m", "e">>, <<"%", "Z">>, <<"c", "e">>}
ListArgs ==
    {[status |-> NULL, client |-> NULL], [status |-> Some(""), client |-> Some(<<>>)]}
        \cup [status : {Some(st) : st \in Statuses}, client : {NULL}]
        \cup [status : {NULL}, client : {Some(c) : c \in ClientFilters}]
        \cup {[status |-> Some("sent"), client |-> Some(<<"c", "m">>)]}

\* What every operation together is run on: the create calls of the reports
\* (due the day before, due the day after), the one with the rates at the
\* ends of [0, 1] and those that fail the checks; two of the listings
AllCreateArgs == ReportCreateArgs \cup EdgeArgs \cup BadArgs
AllListArgs ==
    {[status |-> NULL, client |-> NULL], [status |-> Some("sent"), client |-> NULL]}

NoCalc == [inv |-> NULL, tie |-> NULL, out |-> NULL]

----------------------------------------------------------------------------
(* The invoice store under a single caller *)

Init ==
    /\ invoices = <<>>
    /\ line_items = <<>>
    /\ clock = 0
    /\ last = NoCall
    /\ returned = <<>>
    /\ calc = NoCalc
    /\ conns = [p \in Callers |-> Idle]

\* uuid4(): a value no earlier call gave; the values are named in the order
\* they are drawn
NewId == Len(invoices) + 1

\* Time passes between calls
Tick ==
    /\ clock < MaxDay
    /\ clock' = clock + 1
    /\ UNCHANGED <<invoices, line_items, last, returned, calc, conns>>

\* A call of create_invoice; the clock may pass midnight between its two readings
Create(a, new_id, now2) ==
    /\ ValidateCreate(a).raises = "" => Len(invoices) < MaxInvoices
    /\ ValidateCreate(a).raises # "" => now2 = clock
    /\ \E r \in {create_invoice(invoices, line_items, a, new_id, clock, now2)} :
        /\ invoices' = r.invoices
        /\ line_items' = r.line_items
        /\ clock' = IF ValidateCreate(a).raises = "" THEN now2 ELSE clock
        /\ last' = [op |-> "create", args |-> a, out |-> r.out]
        /\ returned' = IF r.out.raises = ""
                       THEN [i \in DOMAIN returned \cup {new_id} |->
                                IF i = new_id THEN r.out.value ELSE returned[i]]
                       ELSE returned
        /\ UNCHANGED <<calc, conns>>

Get(id) ==
    /\ last' = [op |-> "get", args |-> [invoice_id |-> id],
                out |-> get_invoice(invoices, line_items, id)]
    /\ UNCHANGED <<invoices, line_items, clock, returned, calc, conns>>

Send(id) ==
    \E r \in {send_invoice(invoices, line_items, id)} :
        /\ invoices' = r.invoices
        /\ last' = [op |-> "send", args |-> [invoice_id |-> id], out |-> r.out]
        /\ UNCHANGED <<line_items, clock, returned, calc, conns>>

MarkPaid(id, m) ==
    \E r \in {mark_paid(invoices, line_items, id, m, clock)} :
        /\ invoices' = r.invoices
        /\ last' = [op |-> "mark_paid",
                    args |-> [invoice_id |-> id, payment_method |-> m],
                    out |-> r.out]
        /\ UNCHANGED <<line_items, clock, returned, calc, conns>>

MarkOverdue ==
    \E r \in {mark_overdue(invoices, clock)} :
        /\ invoices' = r.invoices
        /\ last' = [op |-> "mark_overdue", args |-> [today |-> clock], out |-> r.out]
        /\ UNCHANGED <<line_items, clock, returned, calc, conns>>

Next ==
    \/ Tick
    \/ \E a \in CreateArgs, new_id \in {NewId}, now2 \in {clock, clock + 1} :
          now2 <= MaxDay /\ Create(a, new_id, now2)
    \/ \E id \in CallIds : Get(id)
    \/ \E id \in CallIds : Send(id)
    \/ \E id \in CallIds, m \in Methods : MarkPaid(id, m)
    \/ MarkOverdue

Spec == Init /\ [][Next]_vars

----------------------------------------------------------------------------
(* The store with its queries and reports, under a single caller *)

CalculateOverdueFee(id, rate) ==
    /\ \E out \in {calculate_overdue_fee(invoices, line_items, id, rate, clock, t, up) :
                        t \in ReportTies, up \in BOOLEAN} :
          last' = [op |-> "overdue_fee",
                   args |-> [invoice_id |-> id, daily_rate |-> rate],
                   out |-> out]
    /\ UNCHANGED <<invoices, line_items, clock, returned, calc, conns>>

SummaryReport(period_start, period_end) ==
    /\ \E out \in {summary_report(invoices, line_items, period_start, period_end, t, up) :
                        t \in ReportTies, up \in BOOLEAN} :
          last' = [op |-> "summary_report",
                   args |-> [period_start |-> period_start, period_end |-> period_end],
                   out |-> out]
    /\ UNCHANGED <<invoices, line_items, clock, returned, calc, conns>>

ListInvoices(status, client) ==
    /\ last' = [op |-> "list", args |-> [status |-> status, client |-> client],
                out |-> list_invoices(invoices, line_items, status, client)]
    /\ UNCHANGED <<invoices, line_items, clock, returned, calc, conns>>

NextReports ==
    \/ Tick
    \/ \E a \in ReportCreateArgs, new_id \in {NewId}, now2 \in {clock, clock + 1} :
          now2 <= MaxDay /\ Create(a, new_id, now2)
    \/ \E id \in CallIds : Send(id)
    \/ \E id \in CallIds, m \in {Omitted} : MarkPaid(id, m)
    \/ MarkOverdue
    \/ \E id \in CallIds, rate \in DailyRates : CalculateOverdueFee(id, rate)
    \/ \E p \in Periods : SummaryReport(p[1], p[2])
    \/ \E f \in ListArgs : ListInvoices(f.status, f.client)

SpecReports == Init /\ [][NextReports]_vars

----------------------------------------------------------------------------
(* Every operation of the store, under a single caller *)

GeneratePdfText(id) ==
    /\ \E out \in {generate_pdf_text(invoices, line_items, id, t, lo) :
                        t \in ReportTies, lo \in BOOLEAN} :
          last' = [op |-> "pdf_text", args |-> [invoice_id |-> id], out |-> out]
    /\ UNCHANGED <<invoices, line_items, clock, returned, calc, conns>>

ExportToCsv ==
    /\ last' = [op |-> "export", args |-> NULL, out |-> export_to_csv(invoices)]
    /\ UNCHANGED <<invoices, line_items, clock, returned, calc, conns>>

NextAll ==
    \/ Tick
    \/ \E a \in AllCreateArgs, new_id \in {NewId}, now2 \in {clock, clock + 1} :
          now2 <= MaxDay /\ Create(a, new_id, now2)
    \/ \E id \in CallIds : Get(id)
    \/ \E id \in CallIds : Send(id)
    \/ \E id \in CallIds, m \in {Omitted} : MarkPaid(id, m)
    \/ MarkOverdue
    \/ \E id \in CallIds, rate \in {NULL} : CalculateOverdueFee(id, rate)
    \/ SummaryReport(NULL, NULL)
    \/ \E f \in AllListArgs : ListInvoices(f.status, f.client)
    \/ \E id \in CallIds : GeneratePdfText(id)
    \/ ExportToCsv

SpecAll == Init /\ [][NextAll]_vars

----------------------------------------------------------------------------
(* The store under several callers, each with its own connection.          *)
(*                                                                         *)
(* A step is one SQL statement of one call.  sqlite3 opens a transaction   *)
(* before the first INSERT or UPDATE of a with-block, not before a SELECT, *)
(* and the block's end commits it (or rolls it back when the block         *)
(* raises).  A SELECT reads the committed tables.  One connection at a     *)
(* time holds the write lock: an INSERT or UPDATE of another waits until   *)
(* it is released.  A block whose only write is one UPDATE takes the lock, *)
(* writes and commits in one step, nothing being visible in between.       *)

\* Invoice(...) as create_invoice builds it
NewInvoice(a, new_id, number, now) ==
    [id |-> new_id, number |-> number,
     client_name |-> a.client_name, client_email |-> a.client_email,
     line_items |-> a.items, tax_rate |-> a.tax_rate,
     discount |-> a.discount, status |-> "draft",
     due_date |-> now + a.due_days, created_at |-> now,
     paid_at |-> NULL, payment_method |-> NULL,
     notes |-> a.notes, currency |-> a.currency]

\* The row create_invoice inserts for inv
InvoiceRow(inv) ==
    [id |-> inv.id, number |-> inv.number,
     client_name |-> inv.client_name, client_email |-> inv.client_email,
     tax_rate |-> inv.tax_rate, discount |-> inv.discount,
     status |-> inv.status, due_date |-> inv.due_date,
     created_at |-> inv.created_at,
     paid_at |-> NULL, payment_method |-> NULL,
     notes |-> inv.notes, currency |-> inv.currency]

\* The calls of create_invoice that have not returned
CreatesInProgress == {p \in Callers : conns[p].op = "create" /\ conns[p].pc # "done"}

\* Some connection is inside a write transaction
WriteLocked == \E q \in Callers : conns[q].pc = "insert_items"

\* uuid4(): a value neither stored nor drawn by a call in progress
FreshId ==
    CHOOSE id \in InvoiceIds :
        /\ \A i \in 1..Len(invoices) : invoices[i].id # id
        /\ \A q \in CreatesInProgress :
              conns[q].pc = "number" \/ conns[q].loc.inv.id # id

\* The call of caller p moves on to c; its local variables end with it
Goto(p, c) ==
    conns' = [conns EXCEPT ![p] = IF c.pc = "done" THEN [c EXCEPT !.loc = NULL] ELSE c]

\* create_invoice is called: the checks, then the clock is read (now)
ConnCreate(p, a) ==
    /\ conns[p].pc = "done"
    /\ LET checked == ValidateCreate(a)
           c == [op |-> "create", pc |-> "done", args |-> a, loc |-> NULL,
                 out |-> checked]
       IN  IF checked.raises # ""
           THEN Goto(p, c)
           ELSE /\ Len(invoices) + Cardinality(CreatesInProgress) < MaxInvoices
                /\ Goto(p, [c EXCEPT !.pc = "number", !.loc = [now |-> clock]])
    /\ UNCHANGED <<invoices, line_items, clock, last, returned, calc>>

\* _invoice_number(conn): the clock is read again and the rows of the year
\* are counted; then the Invoice object is built
ConnCreateNumber(p) ==
    /\ conns[p].op = "create" /\ conns[p].pc = "number"
    /\ LET number == _invoice_number(invoices, YearOf(clock))
           inv == NewInvoice(conns[p].args, FreshId, number, conns[p].loc.now)
       IN  Goto(p, [conns[p] EXCEPT !.pc = "insert_invoice",
                                    !.loc = [inv |-> inv, li_rows |-> <<>>]])
    /\ UNCHANGED <<invoices, line_items, clock, last, returned, calc>>

\* INSERT INTO invoices: the transaction begins; a row that breaks a
\* constraint raises, and the block rolls back
ConnCreateInsertInvoice(p) ==
    /\ conns[p].op = "create" /\ conns[p].pc = "insert_invoice"
    /\ ~WriteLocked
    /\ IF InsertInvoiceOk(invoices, InvoiceRow(conns[p].loc.inv))
       THEN Goto(p, [conns[p] EXCEPT !.pc = "insert_items"])
       ELSE Goto(p, [conns[p] EXCEPT
                        !.pc = "done",
                        !.out = Raise("IntegrityError", "UNIQUE constraint failed")])
    /\ UNCHANGED <<invoices, line_items, clock, last, returned, calc>>

\* INSERT INTO line_items, for the next item of the loop
ConnCreateInsertItem(p) ==
    /\ conns[p].op = "create" /\ conns[p].pc = "insert_items"
    /\ Len(conns[p].loc.li_rows) < Len(conns[p].args.items)
    /\ LET i == Len(conns[p].loc.li_rows) + 1
           row == LineItemRows(line_items, conns[p].loc.inv.id, conns[p].args.items)[i]
       IN  Goto(p, [conns[p] EXCEPT !.loc.li_rows = Append(@, row)])
    /\ UNCHANGED <<invoices, line_items, clock, last, returned, calc>>

\* The with-block ends: the rows inserted are committed, the Invoice returned
ConnCreateCommit(p) ==
    /\ conns[p].op = "create" /\ conns[p].pc = "insert_items"
    /\ Len(conns[p].loc.li_rows) = Len(conns[p].args.items)
    /\ invoices' = Append(invoices, InvoiceRow(conns[p].loc.inv))
    /\ line_items' = line_items \o conns[p].loc.li_rows
    /\ returned' = [i \in DOMAIN returned \cup {conns[p].loc.inv.id} |->
                       IF i = conns[p].loc.inv.id THEN conns[p].loc.inv ELSE returned[i]]
    /\ Goto(p, [conns[p] EXCEPT !.pc = "done", !.out = Return(conns[p].loc.inv)])
    /\ UNCHANGED <<clock, last, calc>>

\* A failing statement that leaves the rows inserted so far in the tables
ConnCreateFail_keeps_rows(p) ==
    /\ conns[p].op = "create" /\ conns[p].pc = "insert_items"
    /\ invoices' = Append(invoices, InvoiceRow(conns[p].loc.inv))
    /\ line_items' = line_items \o conns[p].loc.li_rows
    /\ Goto(p, [conns[p] EXCEPT !.pc = "done",
                                !.out = Raise("OperationalError", "disk I/O error")])
    /\ UNCHANGED <<clock, last, returned, calc>>

\* A statement inside the transaction fails (the storage raises): the
\* with-block rolls back what was inserted and the call raises
ConnCreateFail(p) ==
    /\ conns[p].op = "create" /\ conns[p].pc = "insert_items"
    /\ Goto(p, [conns[p] EXCEPT !.pc = "done",
                                !.out = Raise("OperationalError", "disk I/O error")])
    /\ UNCHANGED <<invoices, line_items, clock, last, returned, calc>>

\* The local variables of a call that is in (or will come to) get_invoice:
\* the id to fetch, the row once fetched and, in list_invoices, the ids still
\* to fetch (the first being id) and the invoices fetched
GetLoc(id, ids, result) == [id |-> id, row |-> NULL, ids |-> ids, result |-> result]

\* get_invoice's SELECT * FROM invoices WHERE id=? made by the call c
SelectRowStep(c) ==
    LET rows == SelectInvoice(invoices, c.loc.id)
    IN  IF rows = <<>>
        THEN [c EXCEPT !.pc = "done", !.out = Raise("KeyError", "Invoice not found")]
        ELSE [c EXCEPT !.pc = "get_items", !.loc.row = Some(Head(rows))]

\* get_invoice is called and selects the row
ConnGet(p, id) ==
    /\ conns[p].pc = "done"
    /\ Goto(p, SelectRowStep([op |-> "get", pc |-> "get_row",
                              args |-> [invoice_id |-> id],
                              loc |-> GetLoc(id, <<>>, <<>>), out |-> Return(NULL)]))
    /\ UNCHANGED <<invoices, line_items, clock, last, returned, calc>>

\* get_invoice called at the end of send_invoice and mark_paid, and for each
\* id by list_invoices, selects the row
ConnGetRow(p) ==
    /\ conns[p].pc = "get_row"
    /\ Goto(p, SelectRowStep(conns[p]))
    /\ UNCHANGED <<invoices, line_items, clock, last, returned, calc>>

\* get_invoice selects the line items and returns the Invoice; list_invoices
\* goes on to its next id
ConnGetItems(p) ==
    /\ conns[p].pc = "get_items"
    /\ LET c == conns[p]
           li_rows == SelectLineItems(line_items, c.loc.id)
           items == [i \in 1..Len(li_rows) |->
                        LineItem(li_rows[i].description, li_rows[i].qty,
                                 li_rows[i].unit_price)]
           inv == _row_to_invoice(c.loc.row[1], items)
           result == Append(c.loc.result, inv)
           rest == Tail(c.loc.ids)
       IN  IF c.op # "list"
           THEN Goto(p, [c EXCEPT !.pc = "done", !.out = Return(inv)])
           ELSE IF rest = <<>>
           THEN Goto(p, [c EXCEPT !.pc = "done", !.out = Return(result)])
           ELSE Goto(p, [c EXCEPT !.pc = "get_row",
                                  !.loc = GetLoc(Head(rest), rest, result)])
    /\ UNCHANGED <<invoices, line_items, clock, last, returned, calc>>

\* list_invoices is called and selects the ids
ConnList(p, status, client) ==
    /\ conns[p].pc = "done"
    /\ LET rows == ListSelect(invoices, status, client)
           ids == [i \in 1..Len(rows) |-> rows[i].id]
           c == [op |-> "list", pc |-> "done",
                 args |-> [status |-> status, client |-> client],
                 loc |-> NULL, out |-> Return(<<>>)]
       IN  IF ids = <<>>
           THEN Goto(p, c)
           ELSE Goto(p, [c EXCEPT !.pc = "get_row",
                                  !.loc = GetLoc(Head(ids), ids, <<>>)])
    /\ UNCHANGED <<invoices, line_items, clock, last, returned, calc>>

\* send_invoice is called, selects the row and checks its status
ConnSend(p, id) ==
    /\ conns[p].pc = "done"
    /\ LET rows == SelectInvoice(invoices, id)
           c == [op |-> "send", pc |-> "update", args |-> [invoice_id |-> id],
                 loc |-> GetLoc(id, <<>>, <<>>), out |-> Return(NULL)]
       IN  IF rows = <<>>
           THEN Goto(p, [c EXCEPT !.pc = "done",
                                  !.out = Raise("KeyError", "Invoice not found")])
           ELSE IF Head(rows).status = "paid"
           THEN Goto(p, [c EXCEPT !.pc = "done",
                                  !.out = Raise("ValueError", "Cannot send a paid invoice")])
           ELSE Goto(p, c)
    /\ UNCHANGED <<invoices, line_items, clock, last, returned, calc>>

\* send_invoice's UPDATE, committed as the with-block ends
ConnSendUpdate(p) ==
    /\ conns[p].op = "send" /\ conns[p].pc = "update"
    /\ ~WriteLocked
    /\ invoices' = SetStatus(invoices, {conns[p].loc.id}, "sent")
    /\ Goto(p, [conns[p] EXCEPT !.pc = "get_row"])
    /\ UNCHANGED <<line_items, clock, last, returned, calc>>

\* mark_paid is called, selects the row and checks its status
ConnMarkPaid(p, id, m) ==
    /\ conns[p].pc = "done"
    /\ LET rows == SelectInvoice(invoices, id)
           c == [op |-> "mark_paid", pc |-> "update",
                 args |-> [invoice_id |-> id, payment_method |-> m],
                 loc |-> GetLoc(id, <<>>, <<>>), out |-> Return(NULL)]
       IN  IF rows = <<>>
           THEN Goto(p, [c EXCEPT !.pc = "done",
                                  !.out = Raise("KeyError", "Invoice not found")])
           ELSE IF Head(rows).status = "paid"
           THEN Goto(p, [c EXCEPT !.pc = "done",
                                  !.out = Raise("ValueError", "Invoice already paid")])
           ELSE Goto(p, c)
    /\ UNCHANGED <<invoices, line_items, clock, last, returned, calc>>

\* mark_paid's UPDATE with the clock read by _now(), committed as the
\* with-block ends
ConnMarkPaidUpdate(p) ==
    /\ conns[p].op = "mark_paid" /\ conns[p].pc = "update"
    /\ ~WriteLocked
    /\ LET m == conns[p].args.payment_method
           payment_method == IF m = Omitted THEN "bank_transfer" ELSE m
       IN  invoices' = SetPaid(invoices, conns[p].loc.id, payment_method, clock)
    /\ Goto(p, [conns[p] EXCEPT !.pc = "get_row"])
    /\ UNCHANGED <<line_items, clock, last, returned, calc>>

\* mark_overdue is called, reads the clock (today) and selects the ids
ConnMarkOverdue(p) ==
    /\ conns[p].pc = "done"
    /\ LET today == clock
           rows == SelectSeq(invoices, LAMBDA r : r.status = "sent" /\ r.due_date < today)
           ids == [i \in 1..Len(rows) |-> rows[i].id]
           c == [op |-> "mark_overdue", pc |-> "done", args |-> [today |-> today],
                 loc |-> GetLoc(0, ids, <<>>), out |-> Return(ids)]
       IN  IF ids = <<>> THEN Goto(p, c) ELSE Goto(p, [c EXCEPT !.pc = "update"])
    /\ UNCHANGED <<invoices, line_items, clock, last, returned, calc>>

\* mark_overdue's UPDATE of the ids selected, committed as the with-block
\* ends; the ids are returned
ConnMarkOverdueUpdate(p) ==
    /\ conns[p].op = "mark_overdue" /\ conns[p].pc = "update"
    /\ ~WriteLocked
    /\ LET ids == conns[p].loc.ids
       IN  invoices' = SetStatus(invoices, {ids[i] : i \in 1..Len(ids)}, "overdue")
    /\ Goto(p, [conns[p] EXCEPT !.pc = "done"])
    /\ UNCHANGED <<line_items, clock, last, returned, calc>>

NextConc ==
    \E p \in Callers :
        \/ \E a \in ConcCreateArgs : ConnCreate(p, a)
        \/ ConnCreateNumber(p)
        \/ ConnCreateInsertInvoice(p)
        \/ ConnCreateInsertItem(p)
        \/ ConnCreateCommit(p)
        \/ ConnCreateFail(p)
        \/ \E id \in InvoiceIds : ConnGet(p, id)
        \/ ConnGetRow(p)
        \/ ConnGetItems(p)
        \/ ConnList(p, NULL, NULL)
        \/ \E id \in InvoiceIds : ConnSend(p, id)
        \/ ConnSendUpdate(p)
        \/ \E id \in InvoiceIds : ConnMarkPaid(p, id, Omitted)
        \/ ConnMarkPaidUpdate(p)
        \/ ConnMarkOverdue(p)
        \/ ConnMarkOverdueUpdate(p)

SpecConc == Init /\ [][NextConc]_vars

----------------------------------------------------------------------------
(* The calculator on its own: an Invoice object is built, then to_dict()   *)
(* reads its derived fields                                                *)

InitCalc ==
    /\ invoices = <<>>
    /\ line_items = <<>>
    /\ clock = 0
    /\ last = NoCall
    /\ returned = <<>>
    /\ conns = [p \in Callers |-> Idle]
    /\ \E items \in SeqsOf(CalcItemPool, 1, MaxItems),
          tax \in CalcTaxRates, disc \in CalcDiscounts, t \in Ties :
          calc = [inv |-> Some([line_items |-> items, tax_rate |-> tax,
                                discount |-> disc]),
                  tie |-> Some(t), out |-> NULL]

ToDict ==
    /\ calc.out = NULL
    /\ calc' = [calc EXCEPT !.out = Some(to_dict(calc.inv[1], calc.tie[1]))]
    /\ UNCHANGED <<invoices, line_items, clock, last, returned, conns>>

NextCalc == ToDict

SpecCalc == InitCalc /\ [][NextCalc]_vars

----------------------------------------------------------------------------
(* Properties of the store *)

Rows == {invoices[i] : i \in 1..Len(invoices)}
RowOf(id) == CHOOSE r \in Rows : r.id = id
Exists(id) == \E r \in Rows : r.id = id
HasStatus(id, st) == \E r \in Rows : r.id = id /\ r.status = st

\* The steps that are a call of an operation (the test of last' comes first
\* only to spare the evaluation of the action on every other step)
SendCall(id) == last'.op = "send" /\ Send(id)
MarkPaidCall(id, m) == last'.op = "mark_paid" /\ MarkPaid(id, m)
GetCall(id) == last'.op = "get" /\ Get(id)
MarkOverdueCall == last'.op = "mark_overdue" /\ MarkOverdue
CreateCall(a) ==
    last'.op = "create" /\ \E now2 \in {clock, clock + 1} : Create(a, NewId, now2)

Abs(x) == IF x < 0 THEN -x ELSE x

\* r is an integer nearest to n / d
Nearest(r, n, d) == 2 * Abs(r * d - n) <= d

\* C1: every persisted invoice has paid_at and payment_method both set
\* exactly when its status is paid.
PaidFieldsIffPaid ==
    \A r \in Rows : (r.paid_at # NULL /\ r.payment_method # NULL) <=> r.status = "paid"

\* A paid invoice beside one that was sent, fell overdue and was never paid
PaidFieldsIffPaid_Witness ==
    /\ \E r \in Rows : r.status = "paid" /\ r.paid_at # NULL /\ r.payment_method # NULL
    /\ \E r \in Rows : r.status = "overdue" /\ r.paid_at = NULL /\ r.payment_method = NULL

\* C2: a call send(id) on a paid invoice raises ValueError "Cannot send a paid
\* invoice" and changes no row of either table.
SendPaidFails ==
    [][\A id \in CallIds :
          (SendCall(id) /\ HasStatus(id, "paid")) =>
              /\ last'.out = Raise("ValueError", "Cannot send a paid invoice")
              /\ invoices' = invoices
              /\ line_items' = line_items]_vars

\* send has been called on a paid invoice and has raised
SendPaidFails_Witness ==
    /\ last.op = "send"
    /\ last.out.raises = "ValueError"
    /\ HasStatus(last.args.invoice_id, "paid")
    /\ \E r \in Rows : r.id # last.args.invoice_id

\* C3: a call markPaid(id, m) on a paid invoice raises ValueError "Invoice
\* already paid", whatever m is, and leaves status, paid_at and payment_method
\* (every row) as the first markPaid set them.
MarkPaidTwiceFails ==
    [][\A id \in CallIds, m \in Methods :
          (MarkPaidCall(id, m) /\ HasStatus(id, "paid")) =>
              /\ last'.out = Raise("ValueError", "Invoice already paid")
              /\ invoices' = invoices
              /\ line_items' = line_items]_vars

\* markPaid has raised on an invoice paid on an earlier day by another method
MarkPaidTwiceFails_Witness ==
    /\ last.op = "mark_paid"
    /\ last.out.raises = "ValueError"
    /\ \E r \in Rows :
          /\ r.id = last.args.invoice_id
          /\ r.status = "paid"
          /\ r.paid_at # Some(clock)
          /\ r.payment_method = Some("bank_transfer")
          /\ last.args.payment_method = "credit_card"

\* C4: a call markPaid(id, m) on an existing invoice that is draft, sent or
\* overdue returns normally; afterwards (in the table and in the Invoice
\* returned) the status is paid, paid_at is set and payment_method is m, or
\* bank_transfer when m is left out.
MarkPaidSucceeds ==
    [][\A id \in CallIds, m \in Methods :
          (MarkPaidCall(id, m) /\ \E st \in {"draft", "sent", "overdue"} : HasStatus(id, st)) =>
              LET method == IF m = Omitted THEN "bank_transfer" ELSE m
                  after == CHOOSE r \in {invoices'[i] : i \in 1..Len(invoices')} : r.id = id
              IN  /\ last'.out.raises = ""
                  /\ after.status = "paid"
                  /\ after.paid_at # NULL
                  /\ after.payment_method = Some(method)
                  /\ last'.out.value.status = "paid"
                  /\ last'.out.value.paid_at # NULL
                  /\ last'.out.value.payment_method = Some(method)]_vars

\* markPaid without a method has paid an invoice
MarkPaidSucceeds_Witness ==
    /\ last.op = "mark_paid"
    /\ last.out.raises = ""
    /\ last.args.payment_method = Omitted
    /\ RowOf(last.args.invoice_id).payment_method = Some("bank_transfer")
    /\ RowOf(last.args.invoice_id).status = "paid"

\* C5: the k-th invoice created in a calendar year has the number
\* INV-{year}-{k padded to 5 digits}; so two invoices created in the same year
\* have different numbers, the later one the larger sequence.
NumberIsRankInYearCreated ==
    \A i \in 1..Len(invoices) :
        LET year == YearOf(invoices[i].created_at)
            k == Cardinality({j \in 1..i : YearOf(invoices[j].created_at) = year})
        IN  invoices[i].number = FormatNumber(year, k)

\* C6: a call sweepOverdue at date today sets to overdue exactly the invoices
\* that were sent with due_date < today, leaves the status of every other
\* invoice, and returns exactly the ids of the invoices whose status it changed.
SweepExact ==
    [][MarkOverdueCall =>
          LET today == clock
              changed == {invoices[i].id : i \in {j \in 1..Len(invoices) :
                                              invoices'[j].status # invoices[j].status}}
          IN  /\ Len(invoices') = Len(invoices)
              /\ \A i \in 1..Len(invoices) :
                    /\ invoices'[i].id = invoices[i].id
                    /\ invoices'[i].status =
                          IF invoices[i].status = "sent" /\ invoices[i].due_date < today
                          THEN "overdue" ELSE invoices[i].status
              /\ last'.out.raises = ""
              /\ {last'.out.value[i] : i \in 1..Len(last'.out.value)} = changed]_vars

\* A sweep has returned one invoice and left another, sent and due today, alone
SweepExact_Witness ==
    /\ last.op = "mark_overdue"
    /\ Len(last.out.value) = 1
    /\ HasStatus(last.out.value[1], "overdue")
    /\ \E r \in Rows : r.status = "sent" /\ r.due_date = last.args.today

\* What create's checks are to refuse
Invalid(a) ==
    \/ a.items = <<>>
    \/ a.tax_rate < 0 \/ a.tax_rate > Cent
    \/ a.discount < 0 \/ a.discount > Cent

\* C7: a call create with no items, or with tax_rate or discount outside
\* [0, 1], raises ValueError and adds no row to either table; the number the
\* next create receives is what it was.
CreateInvalidFails ==
    [][\A a \in CreateArgs :
          (CreateCall(a) /\ Invalid(a)) =>
              /\ last'.out.raises = "ValueError"
              /\ invoices' = invoices
              /\ line_items' = line_items
              /\ \A day \in 0..MaxDay :
                    _invoice_number(invoices', YearOf(day)) = _invoice_number(invoices, YearOf(day))]_vars

\* create has raised ValueError on a store that holds an invoice
CreateInvalidFails_Witness ==
    /\ last.op = "create"
    /\ last.out.raises = "ValueError"
    /\ last.args.discount > Cent
    /\ invoices # <<>>

\* C8: get, send and markPaid called with an id of no persisted invoice raise
\* KeyError and change no row.
UnknownIdFails ==
    [][\A id \in CallIds :
          (~Exists(id) /\ (GetCall(id) \/ SendCall(id) \/ \E m \in Methods : MarkPaidCall(id, m))) =>
              /\ last'.out.raises = "KeyError"
              /\ invoices' = invoices
              /\ line_items' = line_items]_vars

\* get has raised KeyError on a store that holds an invoice
UnknownIdFails_Witness ==
    /\ last.op = "get"
    /\ last.out.raises = "KeyError"
    /\ ~Exists(last.args.invoice_id)
    /\ invoices # <<>>

\* C9: in every state after a create returned an invoice, get of its id
\* returns line items equal, element by element and in order, to the items
\* create was given, and the tax_rate, discount, client fields, number and
\* due_date create returned.
RoundTrip ==
    /\ \A id \in DOMAIN returned :
          LET got == get_invoice(invoices, line_items, id)
              inv == returned[id]
          IN  /\ got.raises = ""
              /\ Len(got.value.line_items) = Len(inv.line_items)
              /\ \A i \in 1..Len(inv.line_items) :
                    /\ got.value.line_items[i].description = inv.line_items[i].description
                    /\ got.value.line_items[i].qty = inv.line_items[i].qty
                    /\ got.value.line_items[i].unit_price = inv.line_items[i].unit_price
              /\ got.value.tax_rate = inv.tax_rate
              /\ got.value.discount = inv.discount
              /\ got.value.client_name = inv.client_name
              /\ got.value.client_email = inv.client_email
              /\ got.value.number = inv.number
              /\ got.value.due_date = inv.due_date
    /\ (last.op = "create" /\ last.out.raises = "") =>
          /\ last.out.value.id \in DOMAIN returned
          /\ last.out.value.line_items = last.args.items
    /\ (last.op = "get" /\ last.out.raises = "") =>
          /\ last.args.invoice_id \in DOMAIN returned
          /\ last.out.value.line_items = returned[last.args.invoice_id].line_items

\* get has returned a two-item invoice, since paid, created before another one
RoundTrip_Witness ==
    /\ last.op = "get"
    /\ last.out.raises = ""
    /\ Len(last.out.value.line_items) = 2
    /\ last.out.value.line_items[1] # last.out.value.line_items[2]
    /\ last.out.value.status = "paid"
    /\ Len(invoices) = 2
    /\ invoices[1].id = last.args.invoice_id

\* The changes of status between two states, as pairs <<from, to>>
StatusChanges ==
    {<<invoices[i].status, invoices'[i].status>> :
        i \in {j \in 1..Len(invoices) : invoices'[j].status # invoices[j].status}}

\* C19: across any sequence of operations, every change of an invoice's
\* status is one of draft->sent, sent->paid, sent->overdue; none other (such
\* as draft->paid, overdue->paid, overdue->sent) occurs.
LifecycleStrict ==
    [][StatusChanges \subseteq
          {<<"draft", "sent">>, <<"sent", "paid">>, <<"sent", "overdue">>}]_vars

\* C19 as amended: across any sequence of operations, each ending before the
\* next begins, every change of an invoice's status is one of draft->sent,
\* overdue->sent, sent->overdue, draft->paid, sent->paid, overdue->paid: no
\* change leaves paid, none enters draft, and only a sent invoice becomes
\* overdue.
LifecycleAllowed ==
    [][/\ Len(invoices') >= Len(invoices)
       /\ StatusChanges \subseteq
             {<<"draft", "sent">>, <<"overdue", "sent">>, <<"sent", "overdue">>,
              <<"draft", "paid">>, <<"sent", "paid">>, <<"overdue", "paid">>}]_vars

\* An invoice has been paid after its due date, beside one that is still a
\* draft
LifecycleAllowed_Witness ==
    /\ last.op = "mark_paid"
    /\ last.out.raises = ""
    /\ HasStatus(last.args.invoice_id, "paid")
    /\ RowOf(last.args.invoice_id).due_date < RowOf(last.args.invoice_id).paid_at[1]
    /\ \E r \in Rows : r.status = "draft"

\* C20: send(id) on an existing invoice that is draft, sent or overdue
\* succeeds and leaves it with status sent, paid_at and payment_method still
\* null and every other field, every other invoice and every line item as it
\* was; on a sent invoice it changes nothing stored.
SendSucceeds ==
    [][\A id \in CallIds :
          (SendCall(id) /\ \E st \in {"draft", "sent", "overdue"} : HasStatus(id, st)) =>
              /\ last'.out.raises = ""
              /\ last'.out.value.id = id
              /\ last'.out.value.status = "sent"
              /\ Len(invoices') = Len(invoices)
              /\ \A i \in 1..Len(invoices) :
                    IF invoices[i].id = id
                    THEN /\ invoices'[i] = [invoices[i] EXCEPT !.status = "sent"]
                         /\ invoices'[i].paid_at = NULL
                         /\ invoices'[i].payment_method = NULL
                    ELSE invoices'[i] = invoices[i]
              /\ line_items' = line_items
              /\ HasStatus(id, "sent") => invoices' = invoices]_vars

\* send has succeeded on the first of two invoices, the other being overdue
SendSucceeds_Witness ==
    /\ last.op = "send"
    /\ last.out.raises = ""
    /\ Len(invoices) = 2
    /\ invoices[1].id = last.args.invoice_id
    /\ invoices[1].status = "sent"
    /\ invoices[1].paid_at = NULL
    /\ invoices[2].status = "overdue"

----------------------------------------------------------------------------
(* Properties of the queries and reports *)

FeeCall(id, rate) ==
    /\ last'.op = "overdue_fee"
    /\ last'.args = [invoice_id |-> id, daily_rate |-> rate]
    /\ CalculateOverdueFee(id, rate)
SummaryCall(period_start, period_end) ==
    /\ last'.op = "summary_report"
    /\ last'.args = [period_start |-> period_start, period_end |-> period_end]
    /\ SummaryReport(period_start, period_end)
ListCall(status, client) ==
    /\ last'.op = "list"
    /\ last'.args = [status |-> status, client |-> client]
    /\ ListInvoices(status, client)

\* C11: with the fee in cents and the rate in thousandths, overdueFee(id, rate)
\* on a persisted invoice returns 0 when the invoice is paid, whatever its
\* due_date; otherwise it returns total * rate * d rounded to the cent, where
\* d = max(0, today - due_date), and so 0 when today is on or before due_date.
OverdueFeeExact ==
    [][\A id \in CallIds, rate \in DailyRates :
          (FeeCall(id, rate) /\ Exists(id)) =>
              LET row == RowOf(id)
                  r == IF rate = NULL THEN 1 ELSE rate[1]
                  d == IF clock > row.due_date THEN clock - row.due_date ELSE 0
                  inv == get_invoice(invoices, line_items, id).value
                  fee == last'.out.value
              IN  /\ last'.out.raises = ""
                  /\ row.status = "paid" => fee = 0
                  /\ row.status # "paid" =>
                        \E t \in Ties : Nearest(fee, total(inv, t) * r * d, Milli)
                  /\ (row.status # "paid" /\ clock <= row.due_date) => fee = 0]_vars

\* The fee of a paid invoice past its due date has been asked and was 0
OverdueFeeExact_Witness ==
    /\ last.op = "overdue_fee"
    /\ last.out.raises = ""
    /\ last.out.value = 0
    /\ HasStatus(last.args.invoice_id, "paid")
    /\ RowOf(last.args.invoice_id).due_date < RowOf(last.args.invoice_id).paid_at[1]

\* The number of persisted invoices whose status is st
CountStatus(st) == Cardinality({i \in 1..Len(invoices) : invoices[i].status = st})

\* C12: summaryReport without a period returns total_invoices = the number of
\* persisted invoices and paid_count, draft_count, sent_count, overdue_count =
\* the number of invoices in that status, the four summing to total_invoices;
\* collection_rate (in tenths of a percent) is paid_count / total_invoices * 100
\* rounded to one decimal: 0 with all counts zero on an empty store, 50.0 with
\* exactly one paid and one draft invoice.
SummaryCounts ==
    [][SummaryCall(NULL, NULL) =>
          LET report == last'.out.value
          IN  /\ last'.out.raises = ""
              /\ report.total_invoices = Len(invoices)
              /\ report.paid_count = CountStatus("paid")
              /\ report.draft_count = CountStatus("draft")
              /\ report.sent_count = CountStatus("sent")
              /\ report.overdue_count = CountStatus("overdue")
              /\ report.paid_count + report.draft_count + report.sent_count
                    + report.overdue_count = report.total_invoices
              /\ invoices = <<>> =>
                    /\ report.collection_rate = 0
                    /\ report.total_invoices = 0 /\ report.paid_count = 0
                    /\ report.draft_count = 0 /\ report.sent_count = 0
                    /\ report.overdue_count = 0
              /\ invoices # <<>> =>
                    Nearest(report.collection_rate, CountStatus("paid") * 1000,
                            Len(invoices))
              /\ (Len(invoices) = 2 /\ CountStatus("paid") = 1 /\ CountStatus("draft") = 1)
                    => report.collection_rate = 500]_vars

\* The report of a store with one paid and one draft invoice has been made
SummaryCounts_Witness ==
    /\ last.op = "summary_report"
    /\ last.args.period_start = NULL /\ last.args.period_end = NULL
    /\ last.out.value.paid_count = 1
    /\ last.out.value.draft_count = 1
    /\ last.out.value.total_invoices = 2
    /\ last.out.value.collection_rate = 500
    /\ CountStatus("paid") = 1 /\ CountStatus("draft") = 1

\* sub occurs in s, character for character
Contains(s, sub) ==
    \E i \in 0..(Len(s) - Len(sub)) : SubSeq(s, i + 1, i + Len(sub)) = sub

\* The ids of the invoices a call returned, as a set
ReturnedIds(out) == {out.value[i].id : i \in 1..Len(out.value)}

\* C13: list(client_substring = s) returns exactly the persisted invoices
\* whose client_name contains s as a case-sensitive, literal substring: none
\* that contains s only in another letter case or only when a character of s
\* is read as a wildcard.
ListClientLiteral ==
    [][\A f \in ListArgs :
          (ListCall(f.status, f.client) /\ f.status = NULL
                /\ f.client # NULL /\ f.client[1] # <<>>) =>
              /\ last'.out.raises = ""
              /\ ReturnedIds(last'.out) =
                    {r.id : r \in {x \in Rows : Contains(x.client_name, f.client[1])}}]_vars

\* The place of the invoice id in the table: rows are inserted in the order
\* the invoices are created
RowIndex(id) == CHOOSE i \in 1..Len(invoices) : invoices[i].id = id

\* C14: list(status = st) returns exactly the persisted invoices whose status
\* is st, each once; and the result of list with any filters is ordered by
\* created_at descending, an invoice created later never after one created
\* earlier.
ListStatusOrdered ==
    [][\A f \in ListArgs :
          ListCall(f.status, f.client) =>
              LET v == last'.out.value
              IN  /\ last'.out.raises = ""
                  /\ (f.status # NULL /\ f.status[1] # "" /\ f.client = NULL) =>
                        /\ ReturnedIds(last'.out) =
                              {r.id : r \in {x \in Rows : x.status = f.status[1]}}
                        /\ \A i, j \in 1..Len(v) : v[i].id = v[j].id => i = j
                        /\ \A i \in 1..Len(v) : v[i].status = f.status[1]
                  /\ \A i, j \in 1..Len(v) :
                        i < j => /\ v[i].created_at >= v[j].created_at
                                 /\ RowIndex(v[i].id) > RowIndex(v[j].id)]_vars

\* list(status = sent) has returned two invoices created on different days
ListStatusOrdered_Witness ==
    /\ last.op = "list"
    /\ last.args.status = Some("sent")
    /\ last.out.raises = ""
    /\ Len(last.out.value) = 2
    /\ last.out.value[1].created_at > last.out.value[2].created_at
    /\ last.out.value[1].status = "sent" /\ last.out.value[2].status = "sent"

----------------------------------------------------------------------------
(* Properties of the store under several callers *)

\* The call of caller p is an op call that has returned or raised
Finished(p, op) == conns[p].op = op /\ conns[p].pc = "done"

\* C15: when create calls with valid input run concurrently, the count of the
\* year's rows and the insert of each call interleaved in any order, every
\* call (that the storage does not fail) completes successfully, and no two
\* persisted invoices share a number.
ConcurrentCreatesSucceed ==
    /\ \A p \in Callers :
          (Finished(p, "create") /\ ~Invalid(conns[p].args)) =>
              conns[p].out.raises \in {"", "OperationalError"}
    /\ \A i, j \in 1..Len(invoices) :
          invoices[i].number = invoices[j].number => i = j

\* inv is an invoice create_invoice returned, with every line item it was given
Complete(inv) ==
    /\ inv.id \in DOMAIN returned
    /\ inv.line_items # <<>>
    /\ inv.line_items = returned[inv.id].line_items

\* The rows of line_items stored for the invoice id are at positions 0..n-1
PositionsComplete(id) ==
    LET rows == SelectSeq(line_items, LAMBDA r : r.invoice_id = id)
    IN  /\ rows # <<>>
        /\ {rows[i].position : i \in 1..Len(rows)} = 0..(Len(rows) - 1)
        /\ Len(rows) = Len(returned[id].line_items)

\* C16: creation is all-or-nothing for every other caller: at every point of
\* a create, also one that fails after it inserted the invoice row or some
\* line items, a get or list sees the new invoice not at all or with all its
\* line items at positions 0..n-1; no invoice with a line item missing can be
\* seen.
CreateAllOrNothing ==
    /\ \A r \in Rows :
          /\ r.id \in DOMAIN returned
          /\ PositionsComplete(r.id)
          /\ Complete(get_invoice(invoices, line_items, r.id).value)
    /\ \A p \in Callers :
          /\ (Finished(p, "get") /\ conns[p].out.raises = "") =>
                Complete(conns[p].out.value)
          /\ (Finished(p, "list") /\ conns[p].out.raises = "") =>
                \A i \in 1..Len(conns[p].out.value) : Complete(conns[p].out.value[i])
          /\ (conns[p].op = "list" /\ conns[p].pc # "done") =>
                \A i \in 1..Len(conns[p].loc.result) : Complete(conns[p].loc.result[i])

\* A get of the id of an invoice whose create has inserted the invoice row and
\* one of its two line items has raised KeyError
CreateAllOrNothing_Witness ==
    \E p, q \in Callers :
        /\ conns[p].op = "create" /\ conns[p].pc = "insert_items"
        /\ Len(conns[p].loc.li_rows) = 1
        /\ Len(conns[p].args.items) = 2
        /\ Finished(q, "get")
        /\ conns[q].out.raises = "KeyError"
        /\ conns[q].args.invoice_id = conns[p].loc.inv.id
        /\ invoices # <<>>

\* C17: send is atomic with respect to markPaid: in every interleaving of a
\* send(id) and a markPaid(id), once markPaid has committed status paid the
\* status is never set back to sent, and no invoice has status sent with
\* paid_at set.
SendAtomicWithMarkPaid ==
    [][\A i \in 1..Len(invoices) :
          /\ invoices[i].status = "paid" => invoices'[i].status # "sent"
          /\ ~(invoices'[i].status = "sent" /\ invoices'[i].paid_at # NULL)]_vars

\* C18: sweepOverdue is one atomic pass also beside a concurrent markPaid or
\* send: every invoice its update sets to overdue has status sent and
\* due_date < today at that moment, and the ids it returns are the invoices it
\* set to overdue; an invoice paid between its selection and its update is
\* neither set to overdue nor returned.
SweepAtomic ==
    [][\A p \in Callers :
          (conns[p].op = "mark_overdue" /\ conns[p].pc = "update"
                /\ conns'[p].pc = "done") =>
              LET ids == {conns'[p].out.value[k] : k \in 1..Len(conns'[p].out.value)}
              IN  \A i \in 1..Len(invoices) :
                     /\ invoices'[i].status # invoices[i].status =>
                           /\ invoices[i].status = "sent"
                           /\ invoices[i].due_date < conns[p].args.today
                           /\ invoices'[i].status = "overdue"
                     /\ invoices[i].id \in ids <=>
                           invoices'[i].status # invoices[i].status]_vars

----------------------------------------------------------------------------
(* Properties of the calculator *)

ExampleItems ==
    <<LineItem("Service A", Whole(2), Whole(100)), LineItem("Service B", Whole(1), Whole(50))>>

IsExample(inv) ==
    inv.line_items = ExampleItems /\ inv.tax_rate = Tenths(1) /\ inv.discount = Hundredths(5)

\* C10: with amounts in cents, each derived field is its formula rounded to
\* the cent: line total = round(qty * unit_price), subtotal = the sum of the
\* line totals, discount_amount = round(subtotal * discount), taxable_amount =
\* subtotal - discount_amount, tax_amount = round(taxable_amount * tax_rate),
\* total = taxable_amount + tax_amount; and items (2 x 100), (1 x 50) with
\* tax_rate 0.1 and discount 0.05 give 250.00, 12.50, 237.50, 23.75, 261.25.
DerivedFieldsRounded ==
    calc.out # NULL =>
        LET inv == calc.inv[1]
            d == calc.out[1]
        IN  /\ Len(d.line_totals) = Len(inv.line_items)
            /\ \A i \in 1..Len(inv.line_items) :
                  Nearest(d.line_totals[i],
                          inv.line_items[i].qty * inv.line_items[i].unit_price, Cent)
            /\ d.subtotal = Sum(d.line_totals)
            /\ Nearest(d.discount_amount, d.subtotal * inv.discount, Cent)
            /\ d.taxable_amount = d.subtotal - d.discount_amount
            /\ Nearest(d.tax_amount, d.taxable_amount * inv.tax_rate, Cent)
            /\ d.total = d.taxable_amount + d.tax_amount
            /\ IsExample(inv) =>
                  /\ d.subtotal = 25000
                  /\ d.discount_amount = 1250
                  /\ d.taxable_amount = 23750
                  /\ d.tax_amount = 2375
                  /\ d.total = 26125

\* The example has been computed
DerivedFieldsRounded_Witness ==
    /\ calc.out # NULL
    /\ IsExample(calc.inv[1])
    /\ calc.out[1].total = 26125

----------------------------------------------------------------------------
(* Properties of the store under every operation *)

\* The fields of an invoices row other than status, paid_at and payment_method
Fixed(r) ==
    [id |-> r.id, number |-> r.number, client_name |-> r.client_name,
     client_email |-> r.client_email, tax_rate |-> r.tax_rate,
     discount |-> r.discount, due_date |-> r.due_date,
     created_at |-> r.created_at, notes |-> r.notes, currency |-> r.currency]

\* The line_items rows of an invoice, in table order
ItemRows(tbl, invoice_id) == SelectSeq(tbl, LAMBDA r : r.invoice_id = invoice_id)

\* C21: once an invoice is created no operation deletes it or changes its id,
\* number, client_name, client_email, line items, tax_rate, discount,
\* due_date, created_at, notes or currency; only send, markPaid and
\* sweepOverdue change a row at all (its status, paid_at, payment_method), and
\* send and markPaid only the row whose id was given.
FrameKept ==
    [][/\ Len(invoices') >= Len(invoices)
       /\ \A i \in 1..Len(invoices) :
             /\ Fixed(invoices'[i]) = Fixed(invoices[i])
             /\ ItemRows(line_items', invoices[i].id) = ItemRows(line_items, invoices[i].id)
             /\ invoices'[i] # invoices[i] =>
                   /\ last'.op \in {"send", "mark_paid", "mark_overdue"}
                   /\ last'.op \in {"send", "mark_paid"} =>
                         invoices[i].id = last'.args.invoice_id]_vars

\* The second of two invoices has been paid while the first, overdue, kept
\* its empty paid_at
FrameKept_Witness ==
    /\ last.op = "mark_paid"
    /\ last.out.raises = ""
    /\ Len(invoices) = 2
    /\ invoices[2].id = last.args.invoice_id
    /\ invoices[2].status = "paid"
    /\ invoices[1].status = "overdue"
    /\ invoices[1].paid_at = NULL
    /\ ItemRows(line_items, invoices[1].id) # <<>>

\* What holds of every persisted invoice
PersistedValid ==
    \A r \in Rows :
        /\ r.status \in {"draft", "sent", "paid", "overdue"}
        /\ Len(ItemRows(line_items, r.id)) >= 1
        /\ 0 <= r.tax_rate /\ r.tax_rate <= Cent
        /\ 0 <= r.discount /\ r.discount <= Cent

\* C22: in every reachable state every persisted invoice has a status among
\* draft, sent, paid, overdue, at least one line item, 0 <= tax_rate <= 1 and
\* 0 <= discount <= 1; an invoice just created (the Invoice returned and the
\* row stored) is a draft with paid_at and payment_method null and due_date =
\* the creation date + due_days.
InvoiceInvariants ==
    /\ []PersistedValid
    /\ [][\A a \in AllCreateArgs :
             (CreateCall(a) /\ last'.args = a /\ last'.out.raises = "") =>
                 LET inv == last'.out.value
                     row == invoices'[Len(invoices')]
                 IN  /\ Len(invoices') = Len(invoices) + 1
                     /\ row.id = inv.id
                     /\ inv.created_at = clock /\ row.created_at = clock
                     /\ inv.status = "draft" /\ row.status = "draft"
                     /\ inv.paid_at = NULL /\ row.paid_at = NULL
                     /\ inv.payment_method = NULL /\ row.payment_method = NULL
                     /\ inv.due_date = clock + a.due_days
                     /\ row.due_date = clock + a.due_days]_vars

\* An invoice with the rates at the ends of [0, 1] is stored beside a paid
\* one, and the last call has created a draft due the day before
InvoiceInvariants_Witness ==
    /\ \E r \in Rows : r.tax_rate = 0 /\ r.discount = Cent
    /\ \E r \in Rows : r.status = "paid"
    /\ last.op = "create"
    /\ last.out.raises = ""
    /\ last.args.due_days = -1
    /\ HasStatus(last.out.value.id, "draft")
    /\ RowOf(last.out.value.id).due_date = RowOf(last.out.value.id).created_at - 1

\* C23: a sweep leaves no invoice that is sent with due_date < today; and a
\* sweep that follows a sweep of the same today, with no call in between,
\* returns an empty list and changes no row.
SweepIdempotent ==
    [][MarkOverdueCall =>
          /\ last'.out.raises = ""
          /\ \A i \in 1..Len(invoices') :
                ~(invoices'[i].status = "sent" /\ invoices'[i].due_date < clock)
          /\ (last.op = "mark_overdue" /\ last.args.today = clock) =>
                /\ last'.out.value = <<>>
                /\ invoices' = invoices
                /\ line_items' = line_items]_vars

\* A sweep has returned nothing on a day on which an invoice is overdue,
\* another being sent and due that day
SweepIdempotent_Witness ==
    /\ last.op = "mark_overdue"
    /\ last.args.today = clock
    /\ last.out.value = <<>>
    /\ \E r \in Rows : r.status = "overdue" /\ r.due_date < clock
    /\ \E r \in Rows : r.status = "sent" /\ r.due_date = clock

====
